---- MODULE Spec2Model ----
(***************************************************************************)
(* CatalogParser (src/parsers/catalog_parser.py): a pool of asyncio        *)
(* workers draining a paginated catalogue through one shared PageData      *)
(* record (the Frontier) and one page cursor (next_page).                  *)
(*                                                                         *)
(* asyncio runs one coroutine at a time and switches only at an await, so  *)
(* one action is the code between two suspension points.  The suspension   *)
(* points are: waiting for the PageData lock, client.get, asyncio.sleep,   *)
(* asyncio.wait and asyncio.gather.                                        *)
(***************************************************************************)
EXTENDS Integers, Sequences, FiniteSets, TLC

(* ------------------------------ bounds -------------------------------- *)

\* The cursor is unbounded in the code; allocation is cut off above MaxPage.
MaxPage == 5
\* max_retries is drawn from 0..MaxRetries.
MaxRetries == 2
\* At most MaxFails fetches fail in one run.
MaxFails == 2

(* ------------------------------ inputs -------------------------------- *)

\* What the extractor may return for one page: no item, distinct items,
\* items shared with another page, the same item twice.
PageContents == {<< >>, <<"a", "b">>, <<"b", "c">>, <<"a", "a">>}

\* The source: the item list the extractor returns for page 1 and page 2;
\* every later page is empty.
Sources == [{1, 2} -> PageContents]

\* The values of num_workers.
WorkerCounts == {1, 2}

\* The values of chunk_size.
ChunkSizes == {1, 2}

\* Item ids the PageData record may already hold as downloaded.
InitDownloaded == {{}, {"b"}}

\* data_lock when no coroutine is inside protected_access(), and lock when
\* no coroutine is inside `async with self.lock`.
NoOwner == -1

VARIABLES
    num_workers,      \* self.num_workers
    chunk_size,       \* self.chunk_size
    max_retries,      \* self.max_retries
    source,           \* what client.get + the extractor give for a page
    next_page,        \* self.next_page
    stop_event,       \* self.stop_event
    data_lock,        \* holder of page_data.protected_access()
    lock,             \* holder of self.lock
    pending_tasks,    \* data.pending_tasks
    processed_pages,  \* data.processed_pages
    download_queue,   \* data.download_queue
    downloaded,       \* data.downloaded
    max_page_found,   \* data.max_page_found
    no_more_pages,    \* data.no_more_pages
    has_error,        \* data.has_error
    pc,               \* where each worker coroutine is suspended
    tasks,            \* each worker's chunk: the tasks not yet handled
    run_pc,           \* where run() is suspended
    fails,            \* history: failed fetches per page
    commits,          \* history: commits (lines 253-263) per page
    issued,           \* history: times the cursor issued each page
    dropped,          \* history: pages whose task exhausted its attempts
    commit_attempt    \* history: task.attempt_count when the page was committed

config  == <<num_workers, chunk_size, max_retries, source, downloaded>>
data    == <<pending_tasks, processed_pages, download_queue, max_page_found,
             no_more_pages, has_error>>
history == <<fails, commits, issued, dropped, commit_attempt>>
vars    == <<config, data, next_page, stop_event, data_lock, lock, pc, tasks,
             run_pc, history>>

Workers == 0..(num_workers - 1)
Pages   == 1..MaxPage

(* ------------------------------ helpers ------------------------------- *)

Range(s) == {s[i] : i \in 1..Len(s)}

Min(a, b) == IF a < b THEN a ELSE b

Max(a, b) == IF a > b THEN a ELSE b

\* PageTask(request, worker_id, page_number): a fresh task has made no attempt
\* and holds no error.
PageTask(page) ==
    [page_number |-> page, attempt_count |-> 0, last_error |-> "none"]

\* The extractor's result for a fetched page.
PageItems(page) == IF page \in DOMAIN source THEN source[page] ELSE << >>

\* An allocation that also hands out page end_page, which the cursor does
\* not count.
FreshTasksInclusive(start_page, end_page) ==
    [i \in 1..(end_page - start_page + 1) |-> PageTask(start_page + i - 1)]

\* range(start_page, end_page) filtered by `page not in data.processed_pages`.
RECURSIVE FreshTasks(_, _)
FreshTasks(start_page, end_page) ==
    IF start_page >= end_page THEN << >>
    ELSE (IF start_page \notin processed_pages
          THEN <<PageTask(start_page)>> ELSE << >>)
         \o FreshTasks(start_page + 1, end_page)

\* A cursor that lags one page behind the pages it handed out.
AdvanceCursorShort(end_page) == end_page - 2

\* self.next_page = end_page - 1
AdvanceCursor(end_page) == end_page - 1

\* [item for item in items if item not in download_queue and not in downloaded]
NewItems(items) ==
    SelectSeq(items, LAMBDA item : item \notin Range(download_queue)
                                   /\ item \notin downloaded)

\* A high-water mark that is overwritten by the page just committed.
NewMaxPageFoundLast(page) == page

\* data.max_page_found = max(data.max_page_found, task.page_number)
NewMaxPageFound(page) == Max(max_page_found, page)

\* A failure handler that forgets to count the attempt.
RetriedTaskUncounted(task) == task

\* task.attempt_count += 1; task.last_error = Exception(...).  The four
\* handlers (lines 198-199, 207-208, 215-216, 229-230) store exceptions that
\* differ in their message only, and nothing reads last_error: one value
\* stands for all of them.
RetriedTask(task) ==
    [task EXCEPT !.attempt_count = task.attempt_count + 1,
                 !.last_error = "error"]

\* A failure handler that puts the task in front of the queue.
RequeueFront(task) == <<task>> \o pending_tasks

\* data.pending_tasks.append(task)
Requeue(task) == Append(pending_tasks, task)

\* A retry test that allows one attempt too many.
ShouldRetryInclusive(attempt_count) == attempt_count <= max_retries

\* if task.attempt_count < self.max_retries (after the increment)
ShouldRetry(attempt_count) == attempt_count < max_retries

\* An exit test that lost its `not`.
NothingLeftInverted == no_more_pages /\ pending_tasks # << >>

\* if data.no_more_pages and not data.pending_tasks
NothingLeft == no_more_pages /\ pending_tasks = << >>

\* Every empty page ends the catalogue.
MarkExhaustedAny(page) == TRUE

\* if task.page_number > data.max_page_found: data.no_more_pages = True
MarkExhausted(page) == no_more_pages \/ page > max_page_found

\* An allocation that does not look at no_more_pages.
ShouldAllocateAlways(taken_count) == taken_count < chunk_size

\* if len(tasks) < count and not data.no_more_pages
ShouldAllocate(taken_count) == taken_count < chunk_size /\ ~no_more_pages

RECURSIVE SumTo(_, _)
SumTo(f, n) == IF n = 0 THEN 0 ELSE f[n] + SumTo(f, n - 1)

\* The number of failed fetches so far.
TotalFails == SumTo(fails, MaxPage)

Running(w) == pc[w] \notin {"done", "crashed", "cancelled"}

(* ------------------------------- Init --------------------------------- *)

Init ==
    /\ num_workers \in WorkerCounts
    /\ chunk_size \in ChunkSizes
    /\ max_retries \in 0..MaxRetries
    /\ source \in Sources
    /\ downloaded \in InitDownloaded
    /\ next_page = 0
    /\ stop_event = FALSE
    /\ data_lock = NoOwner
    /\ lock = NoOwner
    /\ pending_tasks = << >>
    /\ processed_pages = {}
    /\ download_queue = << >>
    /\ max_page_found = 0
    /\ no_more_pages = FALSE
    /\ has_error = FALSE
    /\ pc = [w \in Workers |-> "next"]
    /\ tasks = [w \in Workers |-> << >>]
    /\ run_pc = "wait"
    /\ fails = [p \in Pages |-> 0]
    /\ commits = [p \in Pages |-> 0]
    /\ issued = [p \in Pages |-> 0]
    /\ dropped = {}
    /\ commit_attempt = [p \in Pages |-> 0]

\* The PageData record is built by the caller and handed to __init__ (lines
\* 23 and 45); lines 156 and 178 read processed_pages for pages this parser
\* has not handled.  Here the record arrives holding the result of page 1,
\* with a task for that page still in pending_tasks.
ResumedInit ==
    /\ num_workers \in WorkerCounts
    /\ chunk_size \in ChunkSizes
    /\ max_retries \in 0..MaxRetries
    /\ source \in {s \in Sources : s[1] # << >>}
    /\ downloaded \in InitDownloaded
    /\ next_page = 0
    /\ stop_event = FALSE
    /\ data_lock = NoOwner
    /\ lock = NoOwner
    /\ pending_tasks = <<PageTask(1)>>
    /\ processed_pages = {1}
    /\ download_queue = SelectSeq(source[1], LAMBDA item : item \notin downloaded)
    /\ max_page_found = 1
    /\ no_more_pages = FALSE
    /\ has_error = FALSE
    /\ pc = [w \in Workers |-> "next"]
    /\ tasks = [w \in Workers |-> << >>]
    /\ run_pc = "wait"
    /\ fails = [p \in Pages |-> 0]
    /\ commits = [p \in Pages |-> 0]
    /\ issued = [p \in Pages |-> 0]
    /\ dropped = {}
    /\ commit_attempt = [p \in Pages |-> 0]

(* ------------------------------ worker -------------------------------- *)

\* worker, line 110, and _get_next_tasks, lines 142-166.
get_next_tasks(w) ==
    /\ pc[w] = "next"
    /\ IF stop_event
       THEN /\ pc' = [pc EXCEPT ![w] = "done"]
            /\ UNCHANGED <<config, lock, data, next_page, stop_event, data_lock,
                           tasks, run_pc, history>>
       ELSE /\ data_lock = NoOwner
            /\ LET taken == SubSeq(pending_tasks, 1,
                                   Min(chunk_size, Len(pending_tasks)))
                   rest == SubSeq(pending_tasks, Len(taken) + 1,
                                  Len(pending_tasks))
                   allocate == ShouldAllocate(Len(taken))
                   start_page == next_page + 1
                   end_page == start_page + (chunk_size - Len(taken))
                   fresh == IF allocate THEN FreshTasks(start_page, end_page)
                            ELSE << >>
                   chunk == taken \o fresh
               IN /\ allocate => end_page - 1 <= MaxPage
                  /\ pending_tasks' = rest
                  /\ next_page' = IF allocate THEN AdvanceCursor(end_page)
                                  ELSE next_page
                  /\ issued' = [p \in Pages |->
                                  IF \E i \in 1..Len(fresh) :
                                        fresh[i].page_number = p
                                  THEN issued[p] + 1 ELSE issued[p]]
                  /\ tasks' = [tasks EXCEPT ![w] = chunk]
                  /\ pc' = [pc EXCEPT ![w] =
                              IF chunk = << >> THEN "empty" ELSE "start"]
            /\ UNCHANGED <<config, lock, processed_pages, download_queue,
                           max_page_found, no_more_pages, has_error,
                           stop_event, data_lock, run_pc, fails, commits,
                           dropped, commit_attempt>>

\* worker, lines 112-121: the chunk was empty.  The sleep of line 120 is
\* inside the `async with`, so the lock is held while the worker sleeps.
worker_idle_check(w) ==
    /\ pc[w] = "empty"
    /\ data_lock = NoOwner
    /\ IF NothingLeft
       THEN /\ pc' = [pc EXCEPT ![w] = "done"]
            /\ UNCHANGED data_lock
       ELSE /\ pc' = [pc EXCEPT ![w] = "backoff"]
            /\ data_lock' = w
    /\ UNCHANGED <<config, lock, data, next_page, stop_event, tasks, run_pc, history>>

\* worker, lines 120-121: the sleep ends, the lock is released, continue.
worker_idle_wake(w) ==
    /\ pc[w] = "backoff"
    /\ data_lock = w
    /\ data_lock' = NoOwner
    /\ pc' = [pc EXCEPT ![w] = "next"]
    /\ UNCHANGED <<config, lock, data, next_page, stop_event, tasks, run_pc, history>>

\* A loop that leaves the chunk after its first task.
AfterTaskBreak(remaining) == "next"

\* worker, line 129 and the next iteration: after the sleep the worker takes
\* the next task of its chunk, or asks for a new chunk.
AfterTask(remaining) == IF remaining = << >> THEN "next" ELSE "start"

\* worker, lines 123-126, and _process_page, lines 177-186.
process_page_start(w) ==
    /\ pc[w] = "start"
    /\ IF stop_event
       THEN /\ pc' = [pc EXCEPT ![w] = "next"]
            /\ tasks' = [tasks EXCEPT ![w] = << >>]
            /\ UNCHANGED <<config, lock, data, next_page, stop_event, data_lock,
                           run_pc, history>>
       ELSE /\ data_lock = NoOwner
            /\ IF Head(tasks[w]).page_number \in processed_pages
               THEN /\ pc' = [pc EXCEPT ![w] = AfterTask(Tail(tasks[w]))]
                    /\ tasks' = [tasks EXCEPT ![w] = Tail(tasks[w])]
               ELSE /\ pc' = [pc EXCEPT ![w] = "fetch"]
                    /\ UNCHANGED tasks
            /\ UNCHANGED <<config, lock, data, next_page, stop_event, data_lock,
                           run_pc, history>>

\* _process_page, lines 192-234: the fetch fails (non-200 status, read
\* error, timeout, any other exception).
fetch_failed(w) ==
    /\ pc[w] = "fetch"
    /\ LET task == Head(tasks[w])
           page == task.page_number
           retried == RetriedTask(task)
       IN /\ fails' = [fails EXCEPT ![page] = @ + 1]
          /\ IF ShouldRetry(retried.attempt_count)
             THEN /\ data_lock = NoOwner
                  /\ pending_tasks' = Requeue(retried)
                  /\ UNCHANGED dropped
             ELSE /\ dropped' = dropped \cup {page}
                  /\ UNCHANGED pending_tasks
          /\ tasks' = [tasks EXCEPT ![w] = Tail(tasks[w])]
          /\ pc' = [pc EXCEPT ![w] = AfterTask(Tail(tasks[w]))]
    /\ UNCHANGED <<config, lock, processed_pages, download_queue, max_page_found,
                   no_more_pages, has_error, next_page, stop_event, data_lock,
                   run_pc, commits, issued, commit_attempt>>

\* A failed fetch, while the run has seen fewer than MaxFails of them.
process_page_fail(w) ==
    /\ TotalFails < MaxFails
    /\ fetch_failed(w)

\* _process_page, lines 236-251, and worker, lines 127-128: the page holds
\* no item; the rest of the chunk is abandoned.
process_page_empty(w) ==
    /\ pc[w] = "fetch"
    /\ data_lock = NoOwner
    /\ LET page == Head(tasks[w]).page_number
       IN /\ PageItems(page) = << >>
          /\ no_more_pages' = MarkExhausted(page)
    /\ tasks' = [tasks EXCEPT ![w] = << >>]
    /\ pc' = [pc EXCEPT ![w] = "next"]
    /\ UNCHANGED <<config, lock, pending_tasks, processed_pages, download_queue,
                   max_page_found, has_error, next_page, stop_event,
                   data_lock, run_pc, fails, commits, issued, dropped,
                   commit_attempt>>

\* _process_page, lines 236-241 and 253-265: the page holds items.
process_page_commit(w) ==
    /\ pc[w] = "fetch"
    /\ data_lock = NoOwner
    /\ LET task == Head(tasks[w])
           page == task.page_number
           items == PageItems(page)
       IN /\ items # << >>
          /\ download_queue' = download_queue \o NewItems(items)
          /\ max_page_found' = NewMaxPageFound(page)
          /\ processed_pages' = processed_pages \cup {page}
          /\ commits' = [commits EXCEPT ![page] = @ + 1]
          /\ commit_attempt' = [commit_attempt EXCEPT ![page] =
                                   task.attempt_count]
    /\ tasks' = [tasks EXCEPT ![w] = Tail(tasks[w])]
    /\ pc' = [pc EXCEPT ![w] = AfterTask(Tail(tasks[w]))]
    /\ UNCHANGED <<config, lock, pending_tasks, no_more_pages, has_error, next_page,
                   stop_event, data_lock, run_pc, fails, issued, dropped>>

\* _process_page, lines 236-241, are outside the try block: an exception of
\* the extractor leaves _process_page and the worker's loop.
worker_crash(w) ==
    /\ pc[w] = "fetch"
    /\ pc' = [pc EXCEPT ![w] = "crashed"]
    /\ tasks' = [tasks EXCEPT ![w] = << >>]
    /\ UNCHANGED <<config, lock, data, next_page, stop_event, data_lock, run_pc,
                   fails, commits, issued, dropped, commit_attempt>>

(* ------------------------------- run ---------------------------------- *)

\* A finally block that cancels no worker.
CancelWorkersNone == pc

\* What run() does to the workers in its finally block, lines 83-87: every
\* worker that is not done is cancelled; CancelledError leaves every
\* `async with`, so a lock the worker held is released.
CancelWorkers == [w \in Workers |-> IF Running(w) THEN "cancelled" ELSE pc[w]]

\* A failure handler that also catches the cancellation and re-enqueues the
\* task of a worker cancelled in its fetch.
PendingAfterCancelRequeued ==
    IF \E w \in Workers : pc[w] = "fetch"
    THEN Requeue(RetriedTask(Head(tasks[CHOOSE w \in Workers : pc[w] = "fetch"])))
    ELSE pending_tasks

\* _process_page, lines 192-234: CancelledError is not an Exception, so no
\* handler of _process_page runs for a cancelled worker and its task is not
\* appended to pending_tasks.
PendingAfterCancel == pending_tasks

\* run, lines 66-68 and 79-87: asyncio.wait returns once every worker has
\* ended, whether it returned or raised; then the finally block.
run_all_completed ==
    /\ run_pc = "wait"
    /\ \A w \in Workers : ~Running(w)
    /\ stop_event' = TRUE
    /\ run_pc' = "report"
    /\ UNCHANGED <<config, lock, data, next_page, data_lock, pc, tasks, history>>

\* run, lines 70-73 and 79-87: run() is cancelled while it waits for the
\* workers.  It sets has_error under the PageData lock, then runs the finally
\* block; when a worker holds the lock, run() first waits for it.
run_cancelled ==
    /\ run_pc = "wait"
    /\ IF data_lock = NoOwner
       THEN /\ has_error' = TRUE
            /\ stop_event' = TRUE
            /\ pc' = CancelWorkers
            /\ tasks' = [w \in Workers |->
                            IF Running(w) THEN << >> ELSE tasks[w]]
            /\ pending_tasks' = PendingAfterCancel
            /\ run_pc' = "report"
       ELSE /\ run_pc' = "except"
            /\ UNCHANGED <<has_error, stop_event, pc, tasks, pending_tasks>>
    /\ UNCHANGED <<config, lock, processed_pages, download_queue,
                   max_page_found, no_more_pages, next_page, data_lock,
                   history>>

\* run, lines 72-73 and 79-87, once the lock is free.
run_except ==
    /\ run_pc = "except"
    /\ data_lock = NoOwner
    /\ has_error' = TRUE
    /\ stop_event' = TRUE
    /\ pc' = CancelWorkers
    /\ tasks' = [w \in Workers |-> IF Running(w) THEN << >> ELSE tasks[w]]
    /\ pending_tasks' = PendingAfterCancel
    /\ run_pc' = "report"
    /\ UNCHANGED <<config, lock, processed_pages, download_queue,
                   max_page_found, no_more_pages, next_page, data_lock,
                   history>>

\* run, lines 89-95: the report of len(data.processed_pages).
run_report ==
    /\ run_pc = "report"
    /\ data_lock = NoOwner
    /\ run_pc' = "reported"
    /\ UNCHANGED <<config, lock, data, next_page, stop_event, data_lock, pc, tasks,
                   history>>

(* ---------------------------- specification --------------------------- *)

Next ==
    \/ \E w \in Workers : get_next_tasks(w)
    \/ \E w \in Workers : worker_idle_check(w)
    \/ \E w \in Workers : worker_idle_wake(w)
    \/ \E w \in Workers : process_page_start(w)
    \/ \E w \in Workers : process_page_fail(w)
    \/ \E w \in Workers : process_page_empty(w)
    \/ \E w \in Workers : process_page_commit(w)
    \/ \E w \in Workers : worker_crash(w)
    \/ run_all_completed
    \/ run_cancelled
    \/ run_except
    \/ run_report

Spec == Init /\ [][Next]_vars

\* A PageData record that is empty or resumed.
AnyInit == Init \/ ResumedInit

\* The same program started on a PageData record that may be empty or resumed.
ResumedSpec == AnyInit /\ [][Next]_vars

(* ------------------- _get_next_tasks, lock by lock -------------------- *)

\* Between two suspensions a coroutine runs alone, and an `async with` on a
\* free lock does not suspend: get_next_tasks above is _get_next_tasks as the
\* event loop runs it.  The actions below split it at every acquisition and
\* release of a lock, which is where the holder of each lock can be seen.

\* A chunk taken without the critical section of lines 144-164 around the
\* allocation.
ReleasedWhileAllocating(w) == NoOwner

\* _get_next_tasks, lines 144 and 151: `async with self.lock` is nested in
\* `async with data`, so w still holds the PageData lock when it asks for
\* the cursor lock.
HeldWhileAllocating(w) == w

\* worker, line 110, and _get_next_tasks, lines 144-150: enter the PageData
\* critical section and take tasks from the front of pending_tasks; without
\* an allocation the critical section ends here.
get_tasks_enter(w) ==
    /\ pc[w] = "next"
    /\ IF stop_event
       THEN /\ pc' = [pc EXCEPT ![w] = "done"]
            /\ UNCHANGED <<pending_tasks, tasks, data_lock>>
       ELSE /\ data_lock = NoOwner
            /\ LET taken == SubSeq(pending_tasks, 1,
                                   Min(chunk_size, Len(pending_tasks)))
                   allocate == ShouldAllocate(Len(taken))
               IN /\ allocate =>
                        next_page + (chunk_size - Len(taken)) <= MaxPage
                  /\ pending_tasks' = SubSeq(pending_tasks, Len(taken) + 1,
                                             Len(pending_tasks))
                  /\ tasks' = [tasks EXCEPT ![w] = taken]
                  /\ data_lock' = IF allocate THEN HeldWhileAllocating(w)
                                  ELSE NoOwner
                  /\ pc' = [pc EXCEPT ![w] =
                              IF allocate THEN "cursor"
                              ELSE IF taken = << >> THEN "empty" ELSE "start"]
    /\ UNCHANGED <<config, lock, processed_pages, download_queue,
                   max_page_found, no_more_pages, has_error, next_page,
                   stop_event, run_pc, history>>

\* _get_next_tasks, line 151: `async with self.lock`.
cursor_acquire(w) ==
    /\ pc[w] = "cursor"
    /\ lock = NoOwner
    /\ lock' = w
    /\ pc' = [pc EXCEPT ![w] = "allocate"]
    /\ UNCHANGED <<config, data, next_page, stop_event, data_lock, tasks,
                   run_pc, history>>

\* _get_next_tasks, lines 152-164: allocate the pages and leave
\* `async with self.lock`.
allocate_pages(w) ==
    /\ pc[w] = "allocate"
    /\ lock = w
    /\ LET start_page == next_page + 1
           end_page == start_page + (chunk_size - Len(tasks[w]))
           fresh == FreshTasks(start_page, end_page)
       IN /\ next_page' = AdvanceCursor(end_page)
          /\ issued' = [p \in Pages |->
                          IF \E i \in 1..Len(fresh) : fresh[i].page_number = p
                          THEN issued[p] + 1 ELSE issued[p]]
          /\ tasks' = [tasks EXCEPT ![w] = tasks[w] \o fresh]
    /\ lock' = NoOwner
    /\ pc' = [pc EXCEPT ![w] = "allocated"]
    /\ UNCHANGED <<config, data, stop_event, data_lock, run_pc, fails,
                   commits, dropped, commit_attempt>>

\* _get_next_tasks, lines 164-166: leave `async with data` and return.
get_tasks_exit(w) ==
    /\ pc[w] = "allocated"
    /\ data_lock = w
    /\ data_lock' = NoOwner
    /\ pc' = [pc EXCEPT ![w] =
                IF tasks[w] = << >> THEN "empty" ELSE "start"]
    /\ UNCHANGED <<config, lock, data, next_page, stop_event, tasks, run_pc,
                   history>>

LockNext ==
    \/ \E w \in Workers : get_tasks_enter(w)
    \/ \E w \in Workers : cursor_acquire(w)
    \/ \E w \in Workers : allocate_pages(w)
    \/ \E w \in Workers : get_tasks_exit(w)
    \/ \E w \in Workers : worker_idle_check(w)
    \/ \E w \in Workers : worker_idle_wake(w)
    \/ \E w \in Workers : process_page_start(w)
    \/ \E w \in Workers : process_page_fail(w)
    \/ \E w \in Workers : process_page_empty(w)
    \/ \E w \in Workers : process_page_commit(w)
    \/ run_all_completed
    \/ run_cancelled
    \/ run_except
    \/ run_report

\* The program with every lock acquisition of _get_next_tasks a step of its
\* own.
LockSpec == Init /\ [][LockNext]_vars

(* ------------------------- derived quantities ------------------------- *)

\* The source is finite with last page K: pages 1..K hold items and every
\* later page holds none.
LastPage == IF source[1] = << >> THEN 0 ELSE IF source[2] = << >> THEN 1 ELSE 2

FiniteSource == \A p \in DOMAIN source : p > LastPage => source[p] = << >>


\* The pages a worker still holds in its chunk.
HeldPages(w) == {tasks[w][i].page_number : i \in 1..Len(tasks[w])}

\* The pages waiting in pending_tasks.
PendingPages == {pending_tasks[i].page_number : i \in 1..Len(pending_tasks)}

\* How often an item occurs in download_queue.
Occurrences(item) ==
    Cardinality({i \in 1..Len(download_queue) : download_queue[i] = item})

(* ----------------- the run on a finite, recovering source ------------- *)

\* A fetch of a page that holds items fails, and the retry budget is not yet
\* used up: the task goes back to pending_tasks.
process_page_fail_transient(w) ==
    /\ pc[w] = "fetch"
    /\ Head(tasks[w]).page_number <= LastPage
    /\ ShouldRetry(Head(tasks[w]).attempt_count + 1)
    /\ process_page_fail(w)

\* The steps of worker w when no exception leaves its loop.
LiveWorker(w) ==
    \/ get_next_tasks(w)
    \/ worker_idle_check(w)
    \/ worker_idle_wake(w)
    \/ process_page_start(w)
    \/ process_page_fail_transient(w)
    \/ process_page_empty(w)
    \/ process_page_commit(w)

LiveNext ==
    \/ \E w \in Workers : get_next_tasks(w)
    \/ \E w \in Workers : worker_idle_check(w)
    \/ \E w \in Workers : worker_idle_wake(w)
    \/ \E w \in Workers : process_page_start(w)
    \/ \E w \in Workers : process_page_fail_transient(w)
    \/ \E w \in Workers : process_page_empty(w)
    \/ \E w \in Workers : process_page_commit(w)
    \/ run_all_completed
    \/ run_report

\* Every worker id some configuration uses.
WorkerIds == UNION {0..(n - 1) : n \in WorkerCounts}

\* The program started on a finite source.
LiveInit == Init /\ FiniteSource

\* The event loop runs every coroutine that is ready: a worker, or run(),
\* that can take a step eventually takes one.
LiveSpec ==
    /\ LiveInit
    /\ [][LiveNext]_vars
    /\ \A w \in WorkerIds : WF_vars(w \in Workers /\ LiveWorker(w))
    /\ WF_vars(run_all_completed \/ run_report)

(* ------------- the run on a source whose end does not answer ---------- *)

\* A fetch of a page beyond the last page with items fails (the server
\* answers 404, or times out, instead of sending an empty page).  Nothing
\* limits how often the source does this.
process_page_fail_beyond(w) ==
    /\ pc[w] = "fetch"
    /\ Head(tasks[w]).page_number > LastPage
    /\ fetch_failed(w)

\* The steps of worker w on such a source; every other fetch succeeds.
AnySourceWorker(w) ==
    \/ get_next_tasks(w)
    \/ worker_idle_check(w)
    \/ worker_idle_wake(w)
    \/ process_page_start(w)
    \/ process_page_fail_beyond(w)
    \/ process_page_empty(w)
    \/ process_page_commit(w)

AnySourceNext ==
    \/ \E w \in Workers : get_next_tasks(w)
    \/ \E w \in Workers : worker_idle_check(w)
    \/ \E w \in Workers : worker_idle_wake(w)
    \/ \E w \in Workers : process_page_start(w)
    \/ \E w \in Workers : process_page_fail_beyond(w)
    \/ \E w \in Workers : process_page_empty(w)
    \/ \E w \in Workers : process_page_commit(w)
    \/ run_all_completed
    \/ run_report

\* The program started on a finite source with nothing downloaded before.
AnySourceInit == LiveInit /\ downloaded = {}

\* The program on a source with last page K whose later pages either come
\* back empty or fail, as the source chooses at every fetch; the event loop
\* is fair as in LiveSpec.
AnySourceSpec ==
    /\ AnySourceInit
    /\ [][AnySourceNext]_vars
    /\ \A w \in WorkerIds : WF_vars(w \in Workers /\ AnySourceWorker(w))
    /\ WF_vars(run_all_completed \/ run_report)

\* The distinct items of pages 1..K.
SourceItems == UNION {Range(source[p]) : p \in 1..LastPage}

\* run() has reported after every worker left its loop by itself, and no
\* fetch failed.
CleanEnd ==
    /\ run_pc = "reported"
    /\ \A w \in Workers : pc[w] = "done"
    /\ ~has_error
    /\ TotalFails = 0

\* Worker w cannot take its next step before another coroutine releases a
\* lock: it is about to enter a PageData critical section that is taken (a
\* worker whose fetch has returned enters one at lines 177, 202, 244 or
\* 253), or it asks for the cursor lock and that is taken.
Blocked(w) ==
    \/ pc[w] \in {"next", "empty", "start", "fetch"} /\ data_lock # NoOwner
    \/ pc[w] = "cursor" /\ lock # NoOwner

\* run() waits for the PageData lock at line 72 or at line 93.
RunBlocked == run_pc \in {"except", "report"} /\ data_lock # NoOwner

(* ------------------------------- claims ------------------------------- *)

C2_Dedup ==
    /\ \A i, j \in 1..Len(download_queue) :
          i # j => download_queue[i] # download_queue[j]
    /\ Range(download_queue) \cap downloaded = {}

\* C3 (Disjoint allocation): no page number is issued by the cursor twice;
\* next_page never decreases and every allocation advances it by exactly the
\* number of pages issued, which is at least one; a dropped page is never
\* issued again.
C3_DisjointAllocation ==
    [][ LET newly == {p \in Pages : issued'[p] # issued[p]}
        IN /\ \A p \in Pages : issued'[p] <= 1
           /\ next_page' >= next_page
           /\ next_page' - next_page = Cardinality(newly)
           /\ newly = (next_page + 1)..next_page'
           /\ newly \cap dropped = {} ]_vars

\* C3 witness: a page was dropped after its retries, and the cursor has
\* allocated again since (to two workers).
C3_Witness ==
    /\ num_workers = 2
    /\ \E p \in dropped : next_page > p + 1
    /\ \A p \in 1..next_page : issued[p] = 1

\* C6 (Monotonicity): in every step max_page_found does not decrease and
\* no_more_pages does not go from true to false.
C6_Monotonicity ==
    [][ /\ max_page_found' >= max_page_found
        /\ no_more_pages => no_more_pages' ]_vars

\* C6 witness: page 2 was committed before page 1 (its items are first in
\* download_queue), so the commit of page 1 met max_page_found = 2, and
\* no_more_pages has been set.
C6_Witness ==
    /\ processed_pages = {1, 2}
    /\ max_page_found = 2
    /\ no_more_pages
    /\ source = [p \in {1, 2} |-> IF p = 1 THEN <<"a", "b">> ELSE <<"b", "c">>]
    /\ download_queue = <<"b", "c", "a">>

C7_AsStated ==
    (CleanEnd /\ FiniteSource) =>
       /\ processed_pages = 1..(LastPage + 1)
       /\ Range(download_queue) = SourceItems \ downloaded
       /\ no_more_pages

\* C7 amended (End state): on a finite source with last page K and no
\* failure, the run ends with processed_pages = 1..K (the empty page that set
\* no_more_pages is not recorded), download_queue holding exactly the items
\* of pages 1..K (that are not yet downloaded), and no_more_pages set.
C7_EndState ==
    (CleanEnd /\ FiniteSource) =>
       /\ processed_pages = 1..LastPage
       /\ Range(download_queue) = SourceItems \ downloaded
       /\ no_more_pages

\* C7 witness: two workers, pages [a,b], [b,c], [] and nothing downloaded
\* before: the run has ended with both pages processed and a, b, c queued.
C7_Witness ==
    /\ CleanEnd
    /\ num_workers = 2
    /\ downloaded = {}
    /\ source = [p \in {1, 2} |-> IF p = 1 THEN <<"a", "b">> ELSE <<"b", "c">>]
    /\ processed_pages = {1, 2}
    /\ Range(download_queue) = {"a", "b", "c"}
    /\ next_page >= 3

\* C8 (Interleaving independence): on a finite source with last page K and
\* no failure, when the run has ended every page 1..K was committed exactly
\* once and every distinct item (not yet downloaded) is in download_queue
\* exactly once.
C8_Interleaving ==
    (CleanEnd /\ FiniteSource) =>
       /\ \A p \in 1..LastPage : commits[p] = 1 /\ p \in processed_pages
       /\ \A item \in SourceItems \ downloaded : Occurrences(item) = 1

\* C10 (Fatal-failure handling): when run() reports after a worker's loop
\* ended by an exception, or after run() was cancelled, the stop signal and
\* has_error are set and no worker is still running.
C10_FatalFailure ==
    (/\ run_pc \in {"report", "reported"}
     /\ \E w \in Workers : pc[w] \in {"crashed", "cancelled"})
    => /\ stop_event
       /\ has_error
       /\ \A w \in Workers : ~Running(w)

\* C4 (Termination on a finite source): when pages 1..K hold items, every
\* later page is fetched empty and every failure is within the retry budget,
\* then under fair scheduling every worker leaves its loop and run() reports.
C4_Termination ==
    <>(run_pc = "reported" /\ \A w \in Workers : pc[w] = "done")

\* C4 witness: two workers and two pages with items; fetches failed and were
\* retried, every worker is done and run() has reported.
C4_Witness ==
    /\ run_pc = "reported"
    /\ \A w \in Workers : pc[w] = "done"
    /\ num_workers = 2
    /\ LastPage = 2
    /\ TotalFails >= 1
    /\ processed_pages = {1, 2}

\* C9 (Retry then success): a page with items whose fetch fails f times,
\* f < max_retries, and then succeeds is eventually in processed_pages, and
\* the attempt_count of its task at the commit is f.
C9_RetryThenSuccess ==
    /\ [](\A p \in processed_pages : commit_attempt[p] = fails[p])
    /\ <>(\A p \in 1..LastPage : p \in processed_pages)

\* C9 witness: with two workers a page was committed after its fetch had
\* failed, with attempt_count equal to the number of failures.
C9_Witness ==
    /\ num_workers = 2
    /\ \E p \in processed_pages :
          fails[p] >= 1 /\ commit_attempt[p] = fails[p] /\ fails[p] < max_retries

C12_Cleanup ==
    [][ /\ stop_event => stop_event'
        /\ run_pc' \in {"report", "reported"} =>
              /\ stop_event'
              /\ \A w \in Workers : pc'[w] \in {"done", "crashed", "cancelled"}
        /\ run_pc \in {"report", "reported"} =>
              /\ pc' = pc
              /\ tasks' = tasks ]_vars

\* C12 witness: run() was cancelled and has reported; one of two workers had
\* already left its loop, the other was cancelled, and a page was committed.
C12_Witness ==
    /\ run_pc = "reported"
    /\ stop_event
    /\ num_workers = 2
    /\ \E w \in Workers : pc[w] = "done"
    /\ \E w \in Workers : pc[w] = "cancelled"
    /\ processed_pages # {}

\* C13 (No lost tasks): on a finite source, while the stop signal is unset
\* and no exception has left a worker's loop, every page with items that was
\* handed out in a chunk is committed, or dropped after its retries, or waits
\* in pending_tasks, or is still in a worker's chunk: no task for a page with
\* items is abandoned.
C13_NoLostTasks ==
    (FiniteSource /\ ~stop_event /\ \A w \in Workers : pc[w] # "crashed") =>
       \A p \in Pages :
          (issued[p] >= 1 /\ PageItems(p) # << >>) =>
             \/ p \in processed_pages
             \/ p \in dropped
             \/ p \in PendingPages
             \/ \E w \in Workers : p \in HeldPages(w)

\* C14 (End-of-catalog detection): no_more_pages goes from false to true in
\* a step exactly when that step is a worker handling a successfully fetched
\* page without items whose number is above max_page_found; an empty page at
\* or below max_page_found, and a failed fetch, leave it false.
C14_EndDetection ==
    [][ LET EmptyHandled(w) ==
                /\ pc[w] = "fetch"
                /\ pc'[w] = "next"
                /\ fails' = fails
                /\ PageItems(Head(tasks[w]).page_number) = << >>
        IN (~no_more_pages /\ no_more_pages') <=>
              /\ ~no_more_pages
              /\ \E w \in Workers :
                    /\ EmptyHandled(w)
                    /\ Head(tasks[w]).page_number > max_page_found ]_vars

\* C14 witness: page 1 is empty and page 2 holds items; page 2 was committed
\* first, then page 1 was fetched without failure and found empty, and
\* no_more_pages is still false.
C14_Witness ==
    /\ source[1] = << >> /\ source[2] # << >>
    /\ 2 \in processed_pages
    /\ ~no_more_pages
    /\ ~stop_event
    /\ \A w \in Workers : pc[w] # "crashed" /\ 1 \notin HeldPages(w)
    /\ issued[1] = 1 /\ fails[1] = 0
    /\ 1 \notin PendingPages

\* C15 (Allocation guard and ordering): a worker that takes a chunk gets at
\* most chunk_size tasks; the chunk starts with the tasks taken from the front
\* of pending_tasks in their order, and what stays in pending_tasks is the
\* rest of it; the cursor advances only if that emptied pending_tasks without
\* filling the chunk and no_more_pages was false; and once no_more_pages is
\* true next_page does not change in any step.
C15_AllocationGuard ==
    [][ /\ no_more_pages => next_page' = next_page
        /\ \A w \in Workers :
              (pc[w] = "next" /\ pc'[w] \in {"start", "empty"}) =>
                 LET n == Len(pending_tasks) - Len(pending_tasks')
                 IN /\ Len(tasks'[w]) <= chunk_size
                    /\ n >= 0
                    /\ n <= Len(tasks'[w])
                    /\ SubSeq(tasks'[w], 1, n) = SubSeq(pending_tasks, 1, n)
                    /\ pending_tasks' =
                          SubSeq(pending_tasks, n + 1, Len(pending_tasks))
                    /\ n < chunk_size => pending_tasks' = << >>
                    /\ next_page' # next_page =>
                          /\ pending_tasks' = << >>
                          /\ n < chunk_size
                          /\ ~no_more_pages
                    /\ \A i \in (n + 1)..Len(tasks'[w]) :
                          /\ tasks'[w][i].page_number > next_page
                          /\ tasks'[w][i].page_number <= next_page' ]_vars

\* C15 witness: with chunk_size = 2 a worker holds a chunk made of a retried
\* task from pending_tasks followed by a freshly allocated page, and
\* pending_tasks is empty.
C15_Witness ==
    /\ chunk_size = 2
    /\ pending_tasks = << >>
    /\ \E w \in Workers :
          /\ pc[w] = "start"
          /\ Len(tasks[w]) = 2
          /\ tasks[w][1].attempt_count >= 1
          /\ tasks[w][2].attempt_count = 0
          /\ tasks[w][2].page_number = next_page

\* C16 (Deadlock freedom by lock order): the cursor lock is only taken by a
\* coroutine that holds the PageData lock and is released before that lock
\* is; no coroutine asks for the PageData lock while it holds the cursor
\* lock; and whenever a lock is held, some unfinished worker is not waiting
\* for a lock, so the workers and run() are never all blocked on locks.
C16_LockOrder ==
    [][ /\ lock' # NoOwner => data_lock' = lock'
        /\ \A w \in Workers :
              /\ (lock # w /\ lock' = w) => data_lock = w
              /\ (data_lock # w /\ data_lock' = w) => lock # w
              /\ (data_lock = w /\ data_lock' # w) => lock # w
        /\ (data_lock' # NoOwner \/ lock' # NoOwner) =>
              \E w \in Workers : Running(w)' /\ ~Blocked(w)' ]_vars

\* C16 witness: one of two workers holds the PageData lock and the cursor
\* lock and is allocating, while the other worker and run() wait for the
\* PageData lock.
C16_Witness ==
    /\ num_workers = 2
    /\ \E w \in Workers :
          /\ data_lock = w /\ lock = w
          /\ pc[w] = "allocate"
          /\ \E v \in Workers : v # w /\ Blocked(v)
    /\ RunBlocked

\* C17 (Task-scoped failures): a step in which a worker's fetch fails leaves
\* processed_pages, download_queue, downloaded, max_page_found, no_more_pages
\* and has_error unchanged and leaves the worker in its loop; the task, with
\* attempt_count incremented and last_error recorded, is appended to the back
\* of pending_tasks exactly when the incremented attempt_count is below
\* max_retries, and pending_tasks is unchanged otherwise; a page whose task
\* was dropped is never in processed_pages.
C17_FailureFrame ==
    [][ /\ dropped' \cap processed_pages' = {}
        /\ \A w \in Workers :
              ( /\ pc[w] = "fetch"
                /\ fails'[Head(tasks[w]).page_number]
                      # fails[Head(tasks[w]).page_number] ) =>
                 LET task == Head(tasks[w])
                     retried == [page_number |-> task.page_number,
                                 attempt_count |-> task.attempt_count + 1,
                                 last_error |-> "error"]
                 IN /\ UNCHANGED <<processed_pages, download_queue, downloaded,
                                   max_page_found, no_more_pages, has_error>>
                    /\ pc'[w] \in {"start", "next"}
                    /\ IF retried.attempt_count < max_retries
                       THEN /\ pending_tasks' = pending_tasks \o <<retried>>
                            /\ dropped' = dropped
                       ELSE /\ pending_tasks' = pending_tasks
                            /\ dropped' = dropped \cup {task.page_number} ]_vars

\* C17 witness: after a page was committed, the fetches of two other pages
\* failed; both tasks wait in pending_tasks in the order of their failures,
\* each with one attempt counted and its error recorded.
C17_Witness ==
    /\ processed_pages # {}
    /\ download_queue # << >>
    /\ Len(pending_tasks) = 2
    /\ \A i \in 1..2 :
          /\ pending_tasks[i].attempt_count = 1
          /\ pending_tasks[i].last_error = "error"
          /\ pending_tasks[i].page_number \notin processed_pages
    /\ ~has_error

\* C18 (Forced cancellation discards in-flight work): a step that cancels a
\* worker changes neither pending_tasks nor processed_pages, download_queue,
\* max_page_found or no_more_pages, and leaves no lock with the cancelled
\* worker; and in every state the commits are whole: each page of
\* processed_pages is at most max_page_found and has all its items in
\* download_queue or downloaded, and download_queue holds nothing but items of
\* pages in processed_pages.
C18_CancelDiscards ==
    [][ /\ \A w \in Workers :
              (Running(w) /\ pc'[w] = "cancelled") =>
                 /\ UNCHANGED <<pending_tasks, processed_pages, download_queue,
                                max_page_found, no_more_pages>>
                 /\ data_lock' # w
                 /\ lock' # w
        /\ \A p \in processed_pages' :
              /\ p <= max_page_found'
              /\ Range(PageItems(p)) \subseteq Range(download_queue') \cup downloaded
        /\ Range(download_queue') \subseteq
              UNION {Range(PageItems(p)) : p \in processed_pages'} ]_vars

\* C18 witness: on a finite source run() was cancelled after a page had been
\* committed, while a worker had a page with items in flight that had never
\* failed: that page is neither committed nor in pending_tasks.
C18_Witness ==
    /\ FiniteSource
    /\ stop_event /\ has_error
    /\ processed_pages # {}
    /\ \E w \in Workers : pc[w] = "cancelled"
    /\ \A w \in Workers : pc[w] # "crashed"
    /\ \E p \in Pages :
          /\ issued[p] = 1 /\ fails[p] = 0
          /\ PageItems(p) # << >>
          /\ p \notin processed_pages
          /\ p \notin PendingPages

\* C19 (Backoff does not block the Frontier): a worker that is suspended in
\* a page fetch, in the delay between two requests or in the idle sleep does
\* not hold the PageData lock.
C19_NoLockWhileSuspended ==
    \A w \in Workers :
       pc[w] \in {"fetch", "start", "next", "backoff"} => data_lock # w

\* C20 (High-water-mark consistency): started on an empty PageData record
\* with next_page = 0, in every state max_page_found is the largest page of
\* processed_pages (0 when there is none), every page of processed_pages
\* holds at least one item and is at most next_page, and every page in
\* pending_tasks or in a worker's chunk is at most next_page.
C20_HighWaterMark ==
    /\ \A p \in processed_pages : p <= max_page_found
    /\ max_page_found \in processed_pages \cup {0}
    /\ \A p \in processed_pages : PageItems(p) # << >> /\ p <= next_page
    /\ \A p \in PendingPages : p <= next_page
    /\ \A w \in Workers : \A p \in HeldPages(w) : p <= next_page

\* C20 witness: page 2 was committed while the task of page 1, whose fetch
\* failed, waits in pending_tasks below the high-water mark, and the cursor
\* has moved on.
C20_Witness ==
    /\ processed_pages = {2}
    /\ max_page_found = 2
    /\ 1 \in PendingPages
    /\ next_page >= 3
    /\ \E w \in Workers : HeldPages(w) # {}

====
